---- MODULE Spec2Model ----
(***************************************************************************)
(* Model of rust-indexer/src/main.rs: the "Kakuzu Observer" bootstrap.     *)
(* main() loads .env, reads ETH_RPC_URL, prints two lines, parses the URL, *)
(* builds an HTTP provider, prints a confirmation and then loops forever   *)
(* printing a scan diagnostic and sleeping 5 seconds.                      *)
(*                                                                         *)
(* Strings are sequences of one-character strings so that URL parsing can  *)
(* be computed (scheme detection, lower-casing, host/port splitting).      *)
(* Standard output is the sequence of println! emissions, each a pair      *)
(* <<fixed text, formatted argument>>.                                     *)
(***************************************************************************)
EXTENDS Integers, Sequences, FiniteSets, TLC

VARIABLES pc, env, envFile, rpc_url_str, rpc_url, provider, stdout, panic,
          envReads, scans, slept

vars == <<pc, env, envFile, rpc_url_str, rpc_url, provider, stdout, panic,
          envReads, scans, slept>>

\* ---------------------------------------------------------------- bounds
MaxLen == 3
MaxFileLines == 2
MaxCycles == 3

\* ------------------------------------------------------------- constants
SleepSecs == 5
MaxPort == 65535

\* --------------------------------------------------------------- strings
Lower == <<"a","b","c","d","e","f","g","h","i","j","k","l","m",
           "n","o","p","q","r","s","t","u","v","w","x","y","z">>
Upper == <<"A","B","C","D","E","F","G","H","I","J","K","L","M",
           "N","O","P","Q","R","S","T","U","V","W","X","Y","Z">>
Digits == <<"0","1","2","3","4","5","6","7","8","9">>

Range(f) == {f[i] : i \in DOMAIN f}
IsAlpha(c) == c \in Range(Lower) \cup Range(Upper)
IsDigit(c) == c \in Range(Digits)

IndexIn(c, tbl) == CHOOSE i \in DOMAIN tbl : tbl[i] = c

\* char::to_ascii_lowercase
ToLowerChar(c) == IF c \in Range(Upper) THEN Lower[IndexIn(c, Upper)] ELSE c
ToLower(s) == [i \in DOMAIN s |-> ToLowerChar(s[i])]

\* char::to_digit(10)
DigitVal(c) == IndexIn(c, Digits) - 1

\* position of the first character of s, at or after index from, that lies
\* in set cs; Len(s)+1 when there is none
FirstIn(s, from, cs) ==
  LET hits == {i \in from..Len(s) : s[i] \in cs}
  IN  IF hits = {} THEN Len(s) + 1
      ELSE CHOOSE i \in hits : \A j \in hits : i <= j

Drop(s, n) == SubSeq(s, n + 1, Len(s))
Take(s, n) == SubSeq(s, 1, n)

\* ------------------------------------------------------------ Url values
NoPort == -1
NoUrl == [scheme |-> <<>>, hasAuthority |-> FALSE, host |-> <<>>,
          port |-> NoPort, path |-> <<>>]

\* schemes the URL standard calls special (other than "file", which no
\* input of this model spells), as <<scheme, default port>>
SpecialSchemes ==
  { << <<"h","t","t","p">>, 80 >>, << <<"h","t","t","p","s">>, 443 >>,
    << <<"w","s">>, 80 >>, << <<"w","s","s">>, 443 >>,
    << <<"f","t","p">>, 21 >> }

IsSpecial(scheme) == \E p \in SpecialSchemes : p[1] = scheme
DefaultPort(scheme) ==
  IF IsSpecial(scheme)
  THEN (CHOOSE p \in SpecialSchemes : p[1] = scheme)[2]
  ELSE NoPort

ParseOk(u) == [ok |-> TRUE, url |-> u, err |-> "none"]
ParseErr(e) == [ok |-> FALSE, url |-> NoUrl, err |-> e]

\* Parser::parse_port: decimal digits up to '/', anything else is an error;
\* the value is accumulated and rejected as soon as it exceeds u16::MAX
RECURSIVE PortValue(_, _)
PortValue(ds, acc) ==
  IF ds = <<>> THEN acc
  ELSE LET v == acc * 10 + DigitVal(Head(ds))
       IN  IF v > MaxPort THEN MaxPort + 1 ELSE PortValue(Tail(ds), v)

\* Parser::parse_host_and_port followed by the path: a is the input after
\* the scheme and the slashes that introduce the authority
ParseAuthority(scheme, a) ==
  LET special == IsSpecial(scheme)
      hostEnd == FirstIn(a, 1, {":", "/"})
      hostStr == Take(a, hostEnd - 1)
      hasPort == hostEnd <= Len(a) /\ a[hostEnd] = ":"
      portEnd == IF hasPort THEN FirstIn(a, hostEnd + 1, {"/"}) ELSE hostEnd
      portStr == IF hasPort THEN SubSeq(a, hostEnd + 1, portEnd - 1) ELSE <<>>
      rest    == Drop(a, portEnd - 1)
      portNum == PortValue(portStr, 0)
  IN  IF hostStr = <<>> /\ (special \/ hasPort) THEN ParseErr("EmptyHost")
      ELSE IF \E i \in DOMAIN portStr : ~IsDigit(portStr[i])
           THEN ParseErr("InvalidPort")
      ELSE IF portNum > MaxPort THEN ParseErr("InvalidPort")
      ELSE ParseOk([scheme |-> scheme,
                    hasAuthority |-> TRUE,
                    host |-> IF special THEN ToLower(hostStr) ELSE hostStr,
                    port |-> IF portStr = <<>> \/ portNum = DefaultPort(scheme)
                             THEN NoPort ELSE portNum,
                    path |-> IF special /\ rest = <<>> THEN <<"/">> ELSE rest])

\* <Url as FromStr>::from_str, i.e. Url::parse with no base URL
UrlParse(s) ==
  LET colon  == FirstIn(s, 1, {":"})
      sch    == Take(s, colon - 1)
      schOk  == /\ colon <= Len(s)
                /\ sch # <<>>
                /\ IsAlpha(sch[1])
                /\ \A i \in DOMAIN sch :
                      IsAlpha(sch[i]) \/ IsDigit(sch[i]) \/ sch[i] \in {"+", "-", "."}
      scheme == ToLower(sch)
      rest   == Drop(s, colon)
      slashes == FirstIn(rest, 1, {c \in Range(rest) : c # "/"}) - 1
  IN  IF ~schOk THEN ParseErr("RelativeUrlWithoutBase")
      ELSE IF IsSpecial(scheme) THEN ParseAuthority(scheme, Drop(rest, slashes))
      ELSE IF slashes >= 2 THEN ParseAuthority(scheme, Drop(rest, 2))
      ELSE ParseOk([scheme |-> scheme, hasAuthority |-> FALSE, host |-> <<>>,
                    port |-> NoPort, path |-> rest])

\* ----------------------------------------------------------- environment
Keys == {"ETH_RPC_URL", "OTHER"}

\* the value the process environment holds for a name: no entry, bytes
\* that are not valid Unicode, or a string
Unset == [kind |-> "unset", s |-> <<>>]
NotUnicode == [kind |-> "bytes", s |-> <<>>]
StrVal(s) == [kind |-> "str", s |-> s]

\* std::env::var: Ok only for an entry that is valid Unicode
\* variants: a missing entry read as the empty string (unwrap_or_default),
\* and an entry read without the Unicode check (var_os, lossy)
EnvVarDefault(e, key) == [ok |-> TRUE, s |-> e[key].s]
EnvVarLossy(e, key) == IF e[key].kind # "unset" THEN [ok |-> TRUE, s |-> e[key].s]
                       ELSE [ok |-> FALSE, s |-> <<>>]
EnvVar(e, key) == IF e[key].kind = "str" THEN [ok |-> TRUE, s |-> e[key].s]
                  ELSE [ok |-> FALSE, s |-> <<>>]

\* one line of a .env file: a key/value pair, or text that does not parse
BadLine == [ok |-> FALSE, key |-> "OTHER", value |-> <<>>]
Pair(k, v) == [ok |-> TRUE, key |-> k, value |-> v]

\* variant: dotenv_override semantics, the file wins over the environment
RECURSIVE LoadLinesOverride(_, _)
LoadLinesOverride(e, lines) ==
  IF lines = <<>> THEN [ok |-> TRUE, env |-> e]
  ELSE LET l == Head(lines)
       IN  IF ~l.ok THEN [ok |-> FALSE, env |-> e]
           ELSE LoadLinesOverride([e EXCEPT ![l.key] = StrVal(l.value)], Tail(lines))

\* dotenv(): Err when no .env is found; otherwise the lines are applied in
\* order, a variable is set only when env::var fails for it, and the first
\* line that does not parse ends the load with Err, keeping what was set
RECURSIVE LoadLines(_, _)
LoadLines(e, lines) ==
  IF lines = <<>> THEN [ok |-> TRUE, env |-> e]
  ELSE LET l == Head(lines)
       IN  IF ~l.ok THEN [ok |-> FALSE, env |-> e]
           ELSE LoadLines(IF EnvVar(e, l.key).ok THEN e
                          ELSE [e EXCEPT ![l.key] = StrVal(l.value)],
                          Tail(lines))

Dotenv(e, f) == IF f.exists THEN LoadLines(e, f.lines)
                ELSE [ok |-> FALSE, env |-> e]

\* ---------------------------------------------------------------- inputs
ScenarioA == <<"h","t","t","p",":","/","/","l","o","c","a","l","h","o","s","t",
               ":","8","5","4","5">>
ScenarioC == <<"n","o","t","-","a","-","u","r","l">>
HostPort  == <<"l","o","c","a","l","h","o","s","t",":","8","5","4","5">>
UpperCase == <<"W","S","S",":","/","/","N","o","d","e",":","4","4","3">>
BigPort   == <<"w","s",":","/","/","w",":","6","5","5","3","6">>

Alphabet == {"w", "s", "W", ":", "/"}

RECURSIVE StringsUpTo(_)
StringsUpTo(n) ==
  IF n = 0 THEN {<<>>}
  ELSE LET shorter == StringsUpTo(n - 1)
       IN  shorter \cup {Append(s, c) : s \in {t \in shorter : Len(t) = n - 1},
                                        c \in Alphabet}

Scenarios == {ScenarioA, ScenarioC, HostPort, UpperCase, BigPort}
EnvStrings == StringsUpTo(MaxLen) \cup Scenarios
EnvValues == {Unset, NotUnicode} \cup {StrVal(s) : s \in EnvStrings}

FileLines == {BadLine, Pair("OTHER", <<"w">>),
              Pair("ETH_RPC_URL", ScenarioA), Pair("ETH_RPC_URL", ScenarioC)}

RECURSIVE FilesUpTo(_)
FilesUpTo(n) ==
  IF n = 0 THEN {<<>>}
  ELSE LET shorter == FilesUpTo(n - 1)
       IN  shorter \cup {Append(ls, l) : ls \in {t \in shorter : Len(t) = n - 1},
                                         l \in FileLines}

\* every string main can hold in rpc_url_str, with its parse computed once
InputStrings == EnvStrings \cup {l.value : l \in FileLines}
ParsedUrls == [s \in InputStrings |-> UrlParse(s)]

NoFile == [exists |-> FALSE, lines |-> <<>>]
EnvFiles == {NoFile} \cup {[exists |-> TRUE, lines |-> ls] : ls \in FilesUpTo(MaxFileLines)}

\* ---------------------------------------------------------------- output
Banner       == <<"Kakuzu Observer initializing...", <<>> >>
TargetLine(s) == <<"Target RPC: ", s>>
ProviderLine == <<"Provider initialized. Starting subscription loop stub...", <<>> >>
ScanLine     == <<"Scanning for events... (Stub)", <<>> >>

NoPanic == "none"
NoProvider == [built |-> FALSE, url |-> NoUrl]

\* variant: the provider is bound to the URL with its port dropped
OnHttpNoPort(u) == [built |-> TRUE, url |-> [u EXCEPT !.port = NoPort]]

\* ProviderBuilder::new().on_http(url)
OnHttp(u) == [built |-> TRUE, url |-> u]

\* ------------------------------------------------------------------ main
Init ==
  /\ pc = "dotenv"
  /\ \E v \in EnvValues : env = [k \in Keys |-> IF k = "ETH_RPC_URL" THEN v ELSE Unset]
  /\ envFile \in EnvFiles
  /\ rpc_url_str = <<>>
  /\ rpc_url = NoUrl
  /\ provider = NoProvider
  /\ stdout = <<>>
  /\ panic = NoPanic
  /\ envReads = 0
  /\ scans = 0
  /\ slept = 0

\* line 11: dotenv().ok()
LoadDotenv ==
  /\ pc = "dotenv"
  /\ env' = Dotenv(env, envFile).env
  /\ pc' = "read_var"
  /\ UNCHANGED <<envFile, rpc_url_str, rpc_url, provider, stdout, panic,
                 envReads, scans, slept>>

\* line 14: env::var("ETH_RPC_URL").expect(..)
ReadVar ==
  /\ pc = "read_var"
  /\ envReads' = envReads + 1
  /\ \E r \in {EnvVar(env, "ETH_RPC_URL")} :
         IF r.ok
         THEN /\ rpc_url_str' = r.s
              /\ pc' = "print_banner"
              /\ panic' = panic
         ELSE /\ rpc_url_str' = rpc_url_str
              /\ pc' = "aborted"
              /\ panic' = "Please set ETH_RPC_URL in .env"
  /\ UNCHANGED <<env, envFile, rpc_url, provider, stdout, scans, slept>>

\* line 16
PrintBanner ==
  /\ pc = "print_banner"
  /\ stdout' = Append(stdout, Banner)
  /\ pc' = "print_target"
  /\ UNCHANGED <<env, envFile, rpc_url_str, rpc_url, provider, panic,
                 envReads, scans, slept>>

\* line 17
PrintTarget ==
  /\ pc = "print_target"
  /\ stdout' = Append(stdout, TargetLine(rpc_url_str))
  /\ pc' = "parse"
  /\ UNCHANGED <<env, envFile, rpc_url_str, rpc_url, provider, panic,
                 envReads, scans, slept>>

\* variant: the parse result is used without the expect
ParseRpcUrlUnchecked ==
  /\ pc = "parse"
  /\ rpc_url' = ParsedUrls[rpc_url_str].url
  /\ pc' = "provider"
  /\ UNCHANGED <<env, envFile, rpc_url_str, provider, stdout, panic,
                 envReads, scans, slept>>

\* line 20: rpc_url_str.parse().expect(..)
ParseRpcUrl ==
  /\ pc = "parse"
  /\ \E r \in {ParsedUrls[rpc_url_str]} :
         IF r.ok
         THEN /\ rpc_url' = r.url
              /\ pc' = "provider"
              /\ panic' = panic
         ELSE /\ rpc_url' = rpc_url
              /\ pc' = "aborted"
              /\ panic' = "Invalid RPC URL format"
  /\ UNCHANGED <<env, envFile, rpc_url_str, provider, stdout, envReads, scans, slept>>

\* line 24
BuildProvider ==
  /\ pc = "provider"
  /\ provider' = OnHttp(rpc_url)
  /\ pc' = "print_provider"
  /\ UNCHANGED <<env, envFile, rpc_url_str, rpc_url, stdout, panic,
                 envReads, scans, slept>>

\* variant: the loop body suspends before it prints
PrintProviderSleepFirst ==
  /\ pc = "print_provider"
  /\ stdout' = Append(stdout, ProviderLine)
  /\ pc' = "loop_sleep"
  /\ UNCHANGED <<env, envFile, rpc_url_str, rpc_url, provider, panic,
                 envReads, scans, slept>>

\* line 26
PrintProvider ==
  /\ pc = "print_provider"
  /\ stdout' = Append(stdout, ProviderLine)
  /\ pc' = "loop_print"
  /\ UNCHANGED <<env, envFile, rpc_url_str, rpc_url, provider, panic,
                 envReads, scans, slept>>

\* variant: the cycle reads ETH_RPC_URL again before printing
ScanPrintReread ==
  /\ pc = "loop_print"
  /\ scans < MaxCycles
  /\ envReads' = envReads + 1
  /\ rpc_url_str' = EnvVar(env, "ETH_RPC_URL").s
  /\ stdout' = Append(stdout, ScanLine)
  /\ scans' = scans + 1
  /\ pc' = "loop_sleep"
  /\ UNCHANGED <<env, envFile, rpc_url, provider, panic, slept>>

\* variant: the cycle prints its diagnostic twice
ScanPrintTwice ==
  /\ pc = "loop_print"
  /\ scans < MaxCycles
  /\ stdout' = stdout \o <<ScanLine, ScanLine>>
  /\ scans' = scans + 1
  /\ pc' = "loop_sleep"
  /\ UNCHANGED <<env, envFile, rpc_url_str, rpc_url, provider, panic,
                 envReads, slept>>

\* line 30; the number of cycles explored is capped at MaxCycles
ScanPrint ==
  /\ pc = "loop_print"
  /\ scans < MaxCycles
  /\ stdout' = Append(stdout, ScanLine)
  /\ scans' = scans + 1
  /\ pc' = "loop_sleep"
  /\ UNCHANGED <<env, envFile, rpc_url_str, rpc_url, provider, panic,
                 envReads, slept>>

\* variant: the loop is left after the suspension (a break)
ScanSleepBreak ==
  /\ pc = "loop_sleep"
  /\ slept' = slept + SleepSecs
  /\ pc' = "aborted"
  /\ UNCHANGED <<env, envFile, rpc_url_str, rpc_url, provider, stdout, panic,
                 envReads, scans>>

\* variant: the awaited timer never completes
ScanSleepHang ==
  /\ pc = "loop_sleep"
  /\ pc' = "parked"
  /\ UNCHANGED <<env, envFile, rpc_url_str, rpc_url, provider, stdout, panic,
                 envReads, scans, slept>>

\* line 31: sleep(Duration::from_secs(5)).await, then back to the loop head
ScanSleep ==
  /\ pc = "loop_sleep"
  /\ slept' = slept + SleepSecs
  /\ pc' = "loop_print"
  /\ UNCHANGED <<env, envFile, rpc_url_str, rpc_url, provider, stdout, panic,
                 envReads, scans>>

Next ==
  \/ LoadDotenv
  \/ ReadVar
  \/ PrintBanner
  \/ PrintTarget
  \/ ParseRpcUrl
  \/ BuildProvider
  \/ PrintProvider
  \/ ScanPrint
  \/ ScanSleep

Spec == Init /\ [][Next]_vars

\* the same program started from the scenario inputs only, with the
\* scheduling assumption: main is the only task of the runtime, so whenever
\* it can take a step it eventually does
FairEnvValues == {Unset, NotUnicode} \cup {StrVal(s) : s \in Scenarios}

FairInit ==
  /\ Init
  /\ env["ETH_RPC_URL"] \in FairEnvValues

FairSpec == FairInit /\ [][Next]_vars /\ WF_vars(Next)

\* the two states of the design
Initializing == pc \in {"dotenv", "read_var", "print_banner", "print_target",
                        "parse", "provider", "print_provider"}
Scanning == pc \in {"loop_print", "loop_sleep"}
Aborted == pc = "aborted"

TypeOK ==
  /\ pc \in {"dotenv", "read_var", "print_banner", "print_target", "parse",
             "provider", "print_provider", "loop_print", "loop_sleep", "aborted"}
  /\ scans \in 0..MaxCycles
  /\ envReads \in 0..1

\* ------------------------------------------------------------ properties
MissingMsg == "Please set ETH_RPC_URL in .env"
InvalidMsg == "Invalid RPC URL format"

RpcVar == env["ETH_RPC_URL"]
ValidRpcVar == RpcVar.kind = "str" /\ UrlParse(RpcVar.s).ok
BeforeParse == {"dotenv", "read_var", "print_banner", "print_target", "parse"}
BeforePrint == {"dotenv", "read_var", "print_banner"}
ScanLines(n) == [i \in 1..n |-> ScanLine]
IsTargetLine(l) == l[1] = TargetLine(<<>>)[1]

\* C1: with ETH_RPC_URL unset once the .env merge is done, the read aborts
\* with the "please set" error, and no state with a provider handle, with
\* the loop entered or with a scan diagnostic on stdout is ever reached
C1_State ==
  (pc # "dotenv" /\ RpcVar.kind = "unset") =>
     /\ pc \in {"read_var", "aborted"}
     /\ pc = "aborted" => panic = MissingMsg
     /\ ~provider.built
     /\ ~Scanning
     /\ scans = 0
     /\ \A i \in DOMAIN stdout : stdout[i] # ScanLine
C1_Step ==
  (pc = "read_var" /\ RpcVar.kind = "unset") => (pc' = "aborted" /\ panic' = MissingMsg)
C1_UnsetAborts == []C1_State /\ [][C1_Step]_vars
C1_Witness ==
  /\ pc = "aborted" /\ panic = MissingMsg /\ RpcVar.kind = "unset"
  /\ envFile.exists /\ envFile.lines # <<>>

\* C2: a value of ETH_RPC_URL that fails URL parsing makes the parse step
\* abort with the "invalid URL" error; no provider handle is ever built, the
\* loop is never entered, and no step is taken once aborted
C2_State ==
  (RpcVar.kind = "str" /\ ~UrlParse(RpcVar.s).ok) =>
     /\ ~provider.built
     /\ rpc_url = NoUrl
     /\ ~Scanning
     /\ pc \in BeforeParse \cup {"aborted"}
C2_Step ==
  /\ (pc = "parse" /\ ~UrlParse(rpc_url_str).ok) =>
        (pc' = "aborted" /\ panic' = InvalidMsg /\ provider' = provider)
  /\ pc # "aborted"
C2_InvalidUrlAborts == []C2_State /\ [][C2_Step]_vars
C2_Witness ==
  /\ pc = "aborted" /\ panic = InvalidMsg
  /\ rpc_url_str = BigPort /\ RpcVar = StrVal(BigPort)
  /\ ~provider.built

\* C3: for a valid URL string in ETH_RPC_URL the Endpoint is the parse of
\* exactly that string, the provider is built from that same Endpoint, and
\* the step after the acquisition leads into Scanning without an abort
C3_State ==
  /\ ValidRpcVar =>
        /\ pc # "aborted"
        /\ pc \notin BeforeParse =>
              /\ rpc_url_str = RpcVar.s
              /\ rpc_url = UrlParse(RpcVar.s).url
        /\ pc \notin BeforeParse \cup {"provider"} =>
              /\ provider.built
              /\ provider.url = UrlParse(RpcVar.s).url
  /\ provider.built => ValidRpcVar
  /\ Scanning => provider.built
C3_Step ==
  /\ pc = "provider" => (pc' = "print_provider" /\ provider'.built /\ provider'.url = rpc_url)
  /\ pc = "print_provider" => Scanning'
C3_EndpointIsParsedForm == []C3_State /\ [][C3_Step]_vars
C3_Witness ==
  /\ Scanning
  /\ RpcVar = StrVal(UpperCase)
  /\ provider.url = [scheme |-> <<"w","s","s">>, hasAuthority |-> TRUE,
                     host |-> <<"n","o","d","e">>, port |-> NoPort,
                     path |-> <<"/">>]

\* C4: Scanning is entered only from Initializing, only by the step that
\* follows the handle acquisition, and that step is always taken; once in
\* Scanning the program stays there: it never goes back, never aborts, and
\* (below the cycle cap of the model) always has a next step
C4_Step ==
  /\ Scanning => Scanning'
  /\ (~Scanning /\ Scanning') => (pc = "print_provider" /\ provider.built)
  /\ Aborted => ~provider.built
C4_Running ==
  (Scanning /\ ~(pc = "loop_print" /\ scans = MaxCycles)) => ENABLED <<Next>>_vars
C4_TwoStateMachine ==
  /\ [][C4_Step]_vars
  /\ [](Initializing \/ Scanning \/ Aborted)
  /\ []C4_Running
  /\ (provider.built ~> Scanning)
C4_Witness == pc = "loop_print" /\ scans >= 2 /\ provider.built

\* C5: once in Scanning every suspension returns to the loop head and is
\* followed by another scan diagnostic, the same line as before, for every
\* cycle up to the cap; never does more than one interval pass without one
C5_Step ==
  scans' # scans => (scans' = scans + 1 /\ stdout' = Append(stdout, ScanLine))
C5_State ==
  /\ slept <= SleepSecs * scans
  /\ Scanning => \A i \in 4..Len(stdout) : stdout[i] = ScanLine
C5_ScanRepeats ==
  /\ \A n \in 0..(MaxCycles - 1) :
        (Scanning /\ scans = n) ~> (scans = n + 1 /\ stdout[Len(stdout)] = ScanLine)
  /\ (pc = "loop_sleep") ~> (pc = "loop_print")
  /\ [][C5_Step]_vars
  /\ []C5_State
C5_Witness == pc = "loop_sleep" /\ scans = MaxCycles /\ slept = SleepSecs * (MaxCycles - 1)

\* C6: a step taken in Scanning changes nothing but the loop position, the
\* output and the cycle bookkeeping; the Endpoint, once created, and the
\* provider, once built, never change; the environment is read once and is
\* not changed after the .env merge
C6_Step ==
  /\ Scanning => UNCHANGED <<env, envFile, rpc_url_str, rpc_url, provider, panic, envReads>>
  /\ rpc_url # NoUrl => rpc_url' = rpc_url
  /\ provider.built => provider' = provider
  /\ pc # "dotenv" => env' = env
  /\ envReads' # envReads => pc = "read_var"
C6_ScanCycleFrame == [][C6_Step]_vars /\ [](envReads <= 1)
C6_Witness == pc = "loop_sleep" /\ scans >= 2 /\ envReads = 1 /\ rpc_url # NoUrl

\* C7: in Scanning, stdout is the banner, the target line with the value
\* read from ETH_RPC_URL, the provider confirmation, and then one scan
\* diagnostic per cycle and nothing else; the confirmation is on stdout only
\* when the handle has been built
C7_StdoutOrder ==
  /\ Scanning =>
        stdout = <<Banner, TargetLine(RpcVar.s), ProviderLine>> \o ScanLines(scans)
  /\ (\E i \in DOMAIN stdout : stdout[i] = ProviderLine) => provider.built
  /\ \A i \in DOMAIN stdout : stdout[i] = ScanLine => i > 3
C7_Witness ==
  /\ Scanning /\ scans = 2
  /\ stdout = <<Banner, TargetLine(ScenarioA), ProviderLine, ScanLine, ScanLine>>

\* the .env file has a line for ETH_RPC_URL / has one that the load reaches
\* (no line before it fails to parse)
FileSupplies(f) ==
  f.exists /\ \E i \in DOMAIN f.lines : f.lines[i].ok /\ f.lines[i].key = "ETH_RPC_URL"
FileSuppliesLoadable(f) ==
  /\ f.exists
  /\ \E i \in DOMAIN f.lines :
        /\ f.lines[i].ok /\ f.lines[i].key = "ETH_RPC_URL"
        /\ \A j \in 1..(i - 1) : f.lines[j].ok

\* what both readings of C8 share: the load step never aborts and never
\* prints, whatever the file; a value that env::var already returns is kept
C8_BestEffort ==
  pc = "dotenv" =>
     /\ pc' = "read_var" /\ panic' = NoPanic /\ stdout' = stdout
     /\ EnvVar(env, "ETH_RPC_URL").ok => env'["ETH_RPC_URL"] = env["ETH_RPC_URL"]

\* C8 as stated: the .env load is best-effort and precedes the read; and
\* whenever the file has a line for ETH_RPC_URL and the process environment
\* lacks the variable, the read that follows succeeds
C8_OriginalStep ==
  /\ C8_BestEffort
  /\ (pc = "dotenv" /\ FileSupplies(envFile) /\ RpcVar.kind = "unset") =>
        EnvVar(env', "ETH_RPC_URL").ok
C8_Original == [][C8_OriginalStep]_vars

\* C8 (amended): the .env load is best-effort and precedes the read: it
\* never aborts, and with a valid URL already in the environment the
\* process is never aborted; when the file has a line for ETH_RPC_URL that
\* is not preceded by a line that fails to parse, and the process
\* environment lacks the variable, the read that follows succeeds
C8_Step ==
  /\ C8_BestEffort
  /\ (pc = "dotenv" /\ FileSuppliesLoadable(envFile) /\ RpcVar.kind = "unset") =>
        EnvVar(env', "ETH_RPC_URL").ok
  /\ (pc = "read_var" /\ FileSuppliesLoadable(envFile)) => pc' = "print_banner"
C8_State ==
  /\ ValidRpcVar => ~Aborted
  /\ FileSuppliesLoadable(envFile) => ~(Aborted /\ panic = MissingMsg)
C8_DotenvBestEffort == [][C8_Step]_vars /\ []C8_State
C8_Witness ==
  /\ Scanning
  /\ envFile.exists /\ ~Dotenv(env, envFile).ok
  /\ FileSuppliesLoadable(envFile)
  /\ rpc_url_str = ScenarioA

\* C9: in Scanning diagnostics and suspensions alternate, diagnostic first:
\* at the loop head as many suspensions as diagnostics have happened, during
\* a suspension exactly one diagnostic more; nothing of either before
C9_Alternation ==
  /\ pc = "loop_print" => slept = SleepSecs * scans
  /\ pc = "loop_sleep" => (scans >= 1 /\ slept = SleepSecs * (scans - 1))
  /\ ~Scanning => (scans = 0 /\ slept = 0)
C9_Witness == pc = "loop_sleep" /\ scans = 1 /\ slept = 0 /\ Len(stdout) = 4

\* what both readings of C10 share: the two lines are printed before the
\* parse; an abort at the read leaves stdout empty; an abort at the parse
\* leaves exactly the banner and the raw string, which is not a valid URL
C10_Common ==
  /\ pc = "parse" => (stdout = <<Banner, TargetLine(rpc_url_str)>> /\ rpc_url = NoUrl)
  /\ (Aborted /\ panic = MissingMsg) => stdout = <<>>
  /\ (Aborted /\ panic = InvalidMsg) =>
        /\ stdout = <<Banner, TargetLine(rpc_url_str)>>
        /\ rpc_url_str = RpcVar.s
        /\ ~UrlParse(rpc_url_str).ok
        /\ rpc_url = NoUrl
BannerAndTarget ==
  /\ Len(stdout) >= 2
  /\ stdout[1] = Banner
  /\ IsTargetLine(stdout[2])

\* C10 as stated: the banner and the target line are on stdout if and only
\* if ETH_RPC_URL is present
C10_Original ==
  /\ C10_Common
  /\ pc \notin {"dotenv", "read_var", "print_banner", "print_target"} =>
        (BannerAndTarget <=> RpcVar.kind # "unset")

\* C10 (amended): the banner and the target line are on stdout if and only
\* if ETH_RPC_URL is present and valid Unicode; an absent or non-Unicode
\* variable aborts with no stdout line; a malformed value aborts with
\* exactly the banner and the raw string printed
C10_BannerIffReadable ==
  /\ C10_Common
  /\ pc \notin {"dotenv", "read_var", "print_banner", "print_target"} =>
        /\ BannerAndTarget <=> RpcVar.kind = "str"
        /\ RpcVar.kind # "str" => (Aborted /\ stdout = <<>>)
C10_Witness ==
  /\ Aborted /\ panic = InvalidMsg
  /\ stdout = <<Banner, TargetLine(ScenarioC)>>

====
